---- MODULE Spec2Model ----
(***************************************************************************)
(* Model of src/py/amm.py: PartialAmm, a two-asset constant-product pool   *)
(* over Python integers, and its ceiling-division helper divup.            *)
(*                                                                         *)
(* Three specifications share the definitions of the operations:           *)
(*   Spec       one caller, calls run one after the other;                 *)
(*   SpecConc   several callers, buy0/sell0 split at the point between     *)
(*              the quote and the reserve updates;                         *)
(*   SpecDivup  divup applied to drawn inputs, next to the pool that the   *)
(*              __main__ block constructs.                                 *)
(***************************************************************************)
EXTENDS Integers, FiniteSets, Sequences, TLC

VARIABLES
    r0, r1,        \* self.r0, self.r1
    calls,         \* number of calls made on the pool so far
    last,          \* the last call: operation, argument, outcome, reserves before it
    prev,          \* the call before the last one
    serialized,    \* SpecConc: callers hold the pool's lock for a whole call
    lock,          \* SpecConc: the set of callers holding the pool's lock
    cpc,           \* SpecConc: each caller's position in its call
    ccall,         \* SpecConc: each caller's operation and argument
    cquote,        \* SpecConc: each caller's local a1 (the quote's outcome)
    cseen,         \* SpecConc: the reserves each caller's quote read
    clog,          \* SpecConc: the calls that have finished, in order
    dn, dd, dq     \* SpecDivup: divup's arguments and its result

vars == <<r0, r1, calls, last, prev, serialized, lock, cpc, ccall, cquote,
          cseen, clog, dn, dd, dq>>

seqVars == <<calls, last, prev>>
concVars == <<serialized, lock, cpc, ccall, cquote, cseen, clog>>
pureVars == <<dn, dd, dq>>

----
\* Bounds

MaxR == 5          \* initial reserves are drawn from 1..MaxR
MaxA == 6          \* call arguments are drawn from 1..MaxA
MaxCalls == 3      \* calls made on one pool in Spec and SpecDivup
MaxCallers == 2    \* callers in SpecConc
MaxN == 24         \* divup numerators are drawn from 0..MaxN
MaxD == 6          \* divup denominators are drawn from 1..MaxD

Amounts == 1..MaxA
Reserves == 1..MaxR

----
\* Outcomes of a call

None == "none"
InsufficientReserve == "RuntimeError: a0 >= r0"
ReserveExhausted == "RuntimeError: a1 >= r1"
ZeroDivisionError == "ZeroDivisionError"

Return(v) == [err |-> None, val |-> v]
Raise(e) == [err |-> e, val |-> 0]

----
\* Arithmetic

\* Python's n // d on integers, d # 0: the floor of the quotient.
FloorDiv(n, d) == IF d > 0 THEN n \div d ELSE (0 - n) \div (0 - d)

divup_off_by_one(n, d) == FloorDiv(n + d, d)

divup_floor(n, d) == FloorDiv(n, d)

divup(n, d) == FloorDiv(n + (d - 1), d)

----
\* Quotes: pure functions of the current reserves

quoteBuy0_eq_check(a0) ==
    IF a0 = r0
    THEN Raise(InsufficientReserve)
    ELSE LET k == r0 * r1
         IN  Return(divup(k, r0 - a0) - r1)

quoteBuy0(a0) ==
    IF a0 >= r0
    THEN Raise(InsufficientReserve)
    ELSE LET k == r0 * r1
         IN  Return(divup(k, r0 - a0) - r1)

quoteSell0_gt_check(a0) ==
    IF r0 + a0 = 0
    THEN Raise(ZeroDivisionError)
    ELSE LET k == r0 * r1
             a1 == r1 - FloorDiv(k, r0 + a0)
         IN  IF a1 > r1 THEN Raise(ReserveExhausted) ELSE Return(a1)

quoteSell0_divup(a0) ==
    IF r0 + a0 = 0
    THEN Raise(ZeroDivisionError)
    ELSE LET k == r0 * r1
             a1 == r1 - divup(k, r0 + a0)
         IN  IF a1 >= r1 THEN Raise(ReserveExhausted) ELSE Return(a1)

quoteSell0_wrong_denominator(a0) ==
    IF r0 + a0 = 0
    THEN Raise(ZeroDivisionError)
    ELSE LET k == r0 * r1
             a1 == r1 - FloorDiv(k, r0 + a0 + 1)
         IN  IF a1 >= r1 THEN Raise(ReserveExhausted) ELSE Return(a1)

quoteSell0(a0) ==
    IF r0 + a0 = 0
    THEN Raise(ZeroDivisionError)
    ELSE LET k == r0 * r1
             a1 == r1 - FloorDiv(k, r0 + a0)
         IN  IF a1 >= r1 THEN Raise(ReserveExhausted) ELSE Return(a1)

\* self.r1 / self.r0 is a true division; the quotient is kept as an exact
\* fraction of the two reserves.
Fraction(n, d) == [num |-> n, den |-> d]

FracLess(a, b) == a.num * b.den < b.num * a.den

price0 == IF r0 = 0 THEN Raise(ZeroDivisionError) ELSE Return(Fraction(r1, r0))

----
\* One caller: every call runs to its end before the next one starts

NoCall == [op |-> "init", a0 |-> 0, err |-> None, val |-> 0, r0 |-> 0, r1 |-> 0]

Call(name, a0, out) ==
    [op |-> name, a0 |-> a0, err |-> out.err, val |-> out.val, r0 |-> r0, r1 |-> r1]

Record(name, a0, out) ==
    /\ calls' = calls + 1
    /\ last' = Call(name, a0, out)
    /\ prev' = last

CallQuoteBuy0(a0) ==
    /\ calls < MaxCalls
    /\ Record("quoteBuy0", a0, quoteBuy0(a0))
    /\ UNCHANGED <<r0, r1, concVars, pureVars>>

CallQuoteSell0(a0) ==
    /\ calls < MaxCalls
    /\ Record("quoteSell0", a0, quoteSell0(a0))
    /\ UNCHANGED <<r0, r1, concVars, pureVars>>

buy0(a0) ==
    /\ calls < MaxCalls
    /\ LET q == quoteBuy0(a0)
       IN  /\ IF q.err = None
              THEN /\ r0' = r0 - a0
                   /\ r1' = r1 + q.val
              ELSE UNCHANGED <<r0, r1>>
           /\ Record("buy0", a0, q)
    /\ UNCHANGED <<concVars, pureVars>>

sell0(a0) ==
    /\ calls < MaxCalls
    /\ LET q == quoteSell0(a0)
       IN  /\ IF q.err = None
              THEN /\ r0' = r0 + a0
                   /\ r1' = r1 - q.val
              ELSE UNCHANGED <<r0, r1>>
           /\ Record("sell0", a0, q)
    /\ UNCHANGED <<concVars, pureVars>>

donate0_subtracts(a0) ==
    /\ calls < MaxCalls
    /\ r0' = r0 - a0
    /\ r1' = r1
    /\ Record("donate0", a0, price0')
    /\ UNCHANGED <<concVars, pureVars>>

donate0(a0) ==
    /\ calls < MaxCalls
    /\ r0' = r0 + a0
    /\ r1' = r1
    /\ Record("donate0", a0, price0')
    /\ UNCHANGED <<concVars, pureVars>>

----
\* Values of the variables a specification does not use

NoCaller == {}
Callers == 1..MaxCallers

ConcIdle ==
    /\ serialized = FALSE
    /\ lock = NoCaller
    /\ cpc = <<>>
    /\ ccall = <<>>
    /\ cquote = <<>>
    /\ cseen = <<>>
    /\ clog = <<>>

PureIdle ==
    /\ dn = 0
    /\ dd = 1
    /\ dq = <<>>

SeqIdle ==
    /\ calls = 0
    /\ last = NoCall
    /\ prev = NoCall

----
\* PartialAmm(r0, r1) followed by calls of one caller

Init ==
    /\ r0 \in Reserves
    /\ r1 \in Reserves
    /\ SeqIdle
    /\ ConcIdle
    /\ PureIdle

Next ==
    \/ \E a0 \in Amounts : CallQuoteBuy0(a0)
    \/ \E a0 \in Amounts : buy0(a0)
    \/ \E a0 \in Amounts : CallQuoteSell0(a0)
    \/ \E a0 \in Amounts : sell0(a0)
    \/ \E a0 \in Amounts : donate0(a0)

Spec == Init /\ [][Next]_vars

----
\* Properties of the calls of one caller (Spec)

Succeeded(c, name) == c.op = name /\ c.err = None

WellFormed(c) == c.r0 > 0 /\ c.r1 > 0 /\ c.a0 > 0

\* C1: a successful buy0(a0) with 0 < a0 < r0 on a pool with positive
\* reserves leaves a product that is not smaller than the product before the
\* call: (r0 - a0) * (r1 + a1) >= r0 * r1.
C1_BuyKeepsProduct ==
    (Succeeded(last, "buy0") /\ WellFormed(last) /\ last.a0 < last.r0)
        => /\ (last.r0 - last.a0) * (last.r1 + last.val) >= last.r0 * last.r1
           /\ r0 * r1 >= last.r0 * last.r1

\* A buy whose payment was rounded up: the product grew strictly.
C1_Witness ==
    /\ Succeeded(last, "buy0") /\ WellFormed(last) /\ last.a0 < last.r0
    /\ r0 * r1 > last.r0 * last.r1

\* C2: on a pool with positive reserves, buy0(a0) with 0 < a0 < r0 followed
\* by sell0(a0) both succeed, r0 is back at its original value and r1 is
\* less than or equal to its original value.
C2_BuyThenSell ==
    /\ (last.op = "buy0" /\ WellFormed(last) /\ last.a0 < last.r0)
           => last.err = None
    /\ (Succeeded(prev, "buy0") /\ WellFormed(prev) /\ prev.a0 < prev.r0
            /\ last.op = "sell0" /\ last.a0 = prev.a0)
           => /\ last.err = None
              /\ r0 = prev.r0
              /\ r1 <= prev.r1

\* A round trip on a freshly constructed pool whose buy was rounded.
C2_Witness ==
    /\ calls = 2
    /\ Succeeded(prev, "buy0") /\ prev.a0 < prev.r0
    /\ last.r0 * last.r1 > prev.r0 * prev.r1
    /\ Succeeded(last, "sell0") /\ last.a0 = prev.a0
    /\ r0 = prev.r0

\* C3: a successful sell0(a0) lowers the product by less than one unit of
\* asset-1: with k the product before and a1 the payout,
\* 0 <= k - (r0 + a0) * (r1 - a1) < r0 + a0, so paying out one unit less
\* would keep the product at or above k.
C3_SellSlack ==
    (Succeeded(last, "sell0") /\ WellFormed(last))
        => LET k == last.r0 * last.r1
               post == (last.r0 + last.a0) * (last.r1 - last.val)
           IN  /\ r0 * r1 = post
               /\ 0 <= k - post
               /\ k - post < last.r0 + last.a0
               /\ (last.r0 + last.a0) * (last.r1 - last.val + 1) >= k

\* A sell that lowered the product.
C3_Witness ==
    /\ Succeeded(last, "sell0") /\ WellFormed(last)
    /\ r0 * r1 < last.r0 * last.r1

\* C4: after any sequence of calls with a0 > 0 on a pool constructed with
\* positive reserves, failed calls included, r0 >= 0 and r1 >= 0.
C4_ReservesNonNegative == r0 >= 0 /\ r1 >= 0

\* A buy of all but one unit of asset-0, made after another trade.
C4_Witness ==
    /\ Succeeded(last, "buy0") /\ last.a0 = last.r0 - 1
    /\ prev.op \in {"sell0", "buy0"}
    /\ r0 = 1

\* C5 as stated: for positive reserves and a0 > 0, quoteSell0(a0) and
\* sell0(a0) never fail.
C5_SellNeverFails ==
    (last.op \in {"quoteSell0", "sell0"} /\ WellFormed(last))
        => last.err = None

\* C5 amended: for positive reserves and a0 > 0, quoteSell0(a0) and sell0(a0)
\* fail with ReserveExhausted exactly when r0 * r1 < r0 + a0, and return a
\* payout otherwise.
C5_SellFailsIffProductSmall ==
    (last.op \in {"quoteSell0", "sell0"} /\ WellFormed(last))
        => /\ last.err \in {None, ReserveExhausted}
           /\ last.err = ReserveExhausted
                  <=> last.r0 * last.r1 < last.r0 + last.a0
           /\ last.err = None => last.val = last.r1 - (last.r0 * last.r1) \div (last.r0 + last.a0)

\* A sell that failed on positive inputs, after a quote that succeeded.
C5_Witness ==
    /\ Succeeded(prev, "quoteSell0") /\ WellFormed(prev)
    /\ last.op = "sell0" /\ WellFormed(last)
    /\ last.err = ReserveExhausted
    /\ r0 = last.r0 /\ r1 = last.r1

\* C6: quoteBuy0(a0) and buy0(a0) fail with InsufficientReserve whenever
\* a0 >= r0, a failed buy0 changes neither reserve, and a buy0 leaves either
\* both reserves as they were or both updated.
C6_BuyRejectsAtomically ==
    /\ (last.op \in {"quoteBuy0", "buy0"} /\ last.a0 >= last.r0)
           => /\ last.err = InsufficientReserve
              /\ r0 = last.r0
              /\ r1 = last.r1
    /\ last.op = "buy0"
           => \/ r0 = last.r0 /\ r1 = last.r1 /\ last.err # None
              \/ r0 = last.r0 - last.a0 /\ r1 = last.r1 + last.val /\ last.err = None

\* quoteBuy0(r0) and then buy0(r0 + 1), both rejected.
C6_Witness ==
    /\ prev.op = "quoteBuy0" /\ prev.a0 = prev.r0
    /\ prev.err = InsufficientReserve
    /\ last.op = "buy0" /\ last.a0 = last.r0 + 1
    /\ last.err = InsufficientReserve
    /\ r0 = last.r0 /\ r1 = last.r1

\* C8: on a pool with positive reserves, donate0(a0) with a0 > 0 succeeds,
\* sets r0 to r0 + a0, leaves r1 unchanged, strictly increases the product
\* and strictly decreases price0, and returns the new price0.
C8_DonateDilutes ==
    (last.op = "donate0" /\ WellFormed(last))
        => /\ last.err = None
           /\ r0 = last.r0 + last.a0
           /\ r1 = last.r1
           /\ r0 * r1 > last.r0 * last.r1
           /\ last.val = Fraction(r1, r0)
           /\ FracLess(last.val, Fraction(last.r1, last.r0))

\* A donation into a pool that has traded.
C8_Witness ==
    /\ Succeeded(prev, "buy0")
    /\ Succeeded(last, "donate0") /\ WellFormed(last)
    /\ r0 = last.r0 + last.a0

----
\* Several callers on one pool (SpecConc).  buy0 and sell0 are two steps: the
\* quote, which reads the reserves into the local a1, and the two reserve
\* updates, which use that a1.  With serialized = TRUE every call holds the
\* pool's lock from its first step to its last.

ConcOps == {"buy0", "sell0", "donate0"}

NoQuote == [err |-> None, val |-> 0]
NoReserves == [r0 |-> 0, r1 |-> 0]
Reserve == [r0 |-> r0, r1 |-> r1]

Acquire(c) ==
    IF serialized
    THEN lock = NoCaller /\ lock' = {c}
    ELSE UNCHANGED lock

Release(c) ==
    IF serialized
    THEN lock = {c} /\ lock' = NoCaller
    ELSE UNCHANGED lock

Finished(c, before) ==
    [caller |-> c, op |-> ccall[c].op, a0 |-> ccall[c].a0, err |-> cquote[c].err,
     val |-> cquote[c].val, seen |-> cseen[c], before |-> before]

\* a1 = self.quoteBuy0(a0) / a1 = self.quoteSell0(a0)
Quote(c, name, a0) ==
    /\ cpc[c] = "idle"
    /\ Acquire(c)
    /\ ccall' = [ccall EXCEPT ![c] = [op |-> name, a0 |-> a0]]
    /\ cquote' = [cquote EXCEPT ![c] = IF name = "buy0" THEN quoteBuy0(a0) ELSE quoteSell0(a0)]
    /\ cseen' = [cseen EXCEPT ![c] = Reserve]
    /\ cpc' = [cpc EXCEPT ![c] = "quoted"]
    /\ UNCHANGED <<r0, r1, serialized, clog, seqVars, pureVars>>

BuyQuote(c, a0) == Quote(c, "buy0", a0)

SellQuote(c, a0) == Quote(c, "sell0", a0)

\* the quote raised: the call ends without touching the reserves
QuoteRaised(c) ==
    /\ cpc[c] = "quoted"
    /\ cquote[c].err # None
    /\ Release(c)
    /\ cpc' = [cpc EXCEPT ![c] = "done"]
    /\ clog' = Append(clog, Finished(c, Reserve))
    /\ UNCHANGED <<r0, r1, serialized, ccall, cquote, cseen, seqVars, pureVars>>

\* self.r0 -= a0; self.r1 += a1
BuyApply(c) ==
    /\ cpc[c] = "quoted"
    /\ ccall[c].op = "buy0"
    /\ cquote[c].err = None
    /\ r0' = r0 - ccall[c].a0
    /\ r1' = r1 + cquote[c].val
    /\ Release(c)
    /\ cpc' = [cpc EXCEPT ![c] = "done"]
    /\ clog' = Append(clog, Finished(c, Reserve))
    /\ UNCHANGED <<serialized, ccall, cquote, cseen, seqVars, pureVars>>

\* self.r0 += a0; self.r1 -= a1
SellApply(c) ==
    /\ cpc[c] = "quoted"
    /\ ccall[c].op = "sell0"
    /\ cquote[c].err = None
    /\ r0' = r0 + ccall[c].a0
    /\ r1' = r1 - cquote[c].val
    /\ Release(c)
    /\ cpc' = [cpc EXCEPT ![c] = "done"]
    /\ clog' = Append(clog, Finished(c, Reserve))
    /\ UNCHANGED <<serialized, ccall, cquote, cseen, seqVars, pureVars>>

\* donate0 has no step between its read and its write of the reserves
Donate(c, a0) ==
    /\ cpc[c] = "idle"
    /\ IF serialized THEN lock = NoCaller ELSE TRUE
    /\ r0' = r0 + a0
    /\ r1' = r1
    /\ cpc' = [cpc EXCEPT ![c] = "done"]
    /\ ccall' = [ccall EXCEPT ![c] = [op |-> "donate0", a0 |-> a0]]
    /\ cquote' = [cquote EXCEPT ![c] = price0']
    /\ cseen' = [cseen EXCEPT ![c] = Reserve]
    /\ clog' = Append(clog, [caller |-> c, op |-> "donate0", a0 |-> a0,
                             err |-> price0'.err, val |-> price0'.val,
                             seen |-> Reserve, before |-> Reserve])
    /\ UNCHANGED <<serialized, lock, seqVars, pureVars>>

InitConc ==
    /\ r0 \in Reserves
    /\ r1 \in Reserves
    /\ serialized \in BOOLEAN
    /\ lock = NoCaller
    /\ cpc = [c \in Callers |-> "idle"]
    /\ ccall = [c \in Callers |-> [op |-> "init", a0 |-> 0]]
    /\ cquote = [c \in Callers |-> NoQuote]
    /\ cseen = [c \in Callers |-> NoReserves]
    /\ clog = <<>>
    /\ SeqIdle
    /\ PureIdle

NextConc ==
    \/ \E c \in Callers, a0 \in Amounts : BuyQuote(c, a0)
    \/ \E c \in Callers, a0 \in Amounts : SellQuote(c, a0)
    \/ \E c \in Callers : QuoteRaised(c)
    \/ \E c \in Callers : BuyApply(c)
    \/ \E c \in Callers : SellApply(c)
    \/ \E c \in Callers, a0 \in Amounts : Donate(c, a0)

SpecConc == InitConc /\ [][NextConc]_vars

\* the reserves after the finished call number i
After(i) == IF i = Len(clog) THEN Reserve ELSE clog[i + 1].before

Product(p) == p.r0 * p.r1

\* C7: when every call runs under mutual exclusion, a buy0 applies its quote
\* to the reserves the quote read and never lowers the product; without it,
\* two buy0 calls that both quote before either applies can leave a product
\* below the one before the two calls (C7_Witness).
C7_SerializedBuyKeepsProduct ==
    serialized =>
        \A i \in 1..Len(clog) :
            (clog[i].op = "buy0" /\ clog[i].err = None)
                => /\ clog[i].seen = clog[i].before
                   /\ Product(After(i)) >= Product(clog[i].before)

\* Two buy0 calls, not serialized, both quoted against the initial reserves
\* and both applied: the product is below the one before the two calls.
C7_Witness ==
    /\ ~serialized
    /\ Len(clog) = 2
    /\ clog[1].op = "buy0" /\ clog[1].err = None
    /\ clog[2].op = "buy0" /\ clog[2].err = None
    /\ clog[1].caller # clog[2].caller
    /\ clog[1].seen = clog[1].before
    /\ clog[2].seen = clog[1].seen
    /\ clog[1].seen.r0 > 0 /\ clog[1].seen.r1 > 0
    /\ r0 = clog[1].seen.r0 - clog[1].a0 - clog[2].a0
    /\ r1 = clog[1].seen.r1 + clog[1].val + clog[2].val
    /\ r0 > 0
    /\ r0 * r1 < Product(clog[1].seen)

----
\* divup on drawn arguments, next to the pool of the __main__ block
\* (SpecDivup)

MainReserve == 10000
\* the amounts of the calls in the __main__ block; 1e4 is passed as a float
\* whose value is the integer 10000
MainAmounts == {90, 500, 10000}
ScenarioN == MainReserve * MainReserve
ScenarioD == MainReserve - 90

CallDivup ==
    /\ dq = <<>>
    /\ dq' = <<divup(dn, dd)>>
    /\ UNCHANGED <<r0, r1, dn, dd, seqVars, concVars>>

InitDivup ==
    /\ r0 = MainReserve
    /\ r1 = MainReserve
    /\ dn \in (0..MaxN) \cup {ScenarioN}
    /\ dd \in (1..MaxD) \cup {ScenarioD}
    /\ dq = <<>>
    /\ SeqIdle
    /\ ConcIdle

NextDivup ==
    \/ CallDivup
    \/ \E a0 \in MainAmounts : buy0(a0)
    \/ \E a0 \in MainAmounts : sell0(a0)

SpecDivup == InitDivup /\ [][NextDivup]_vars

\* C9: divup(n, d) is the least integer q with q * d >= n for n >= 0 and
\* d > 0; divup(10, 5) = 2, divup(11, 5) = 3, divup(100000000, 9910) = 10091,
\* and buy0(90) on the pool (10000, 10000) returns 91 and leaves r0 = 9910,
\* r1 = 10091.
C9_DivupIsCeiling ==
    /\ dq # <<>>
           => /\ dq[1] * dd >= dn
              /\ (dq[1] - 1) * dd < dn
              /\ (dn = 10 /\ dd = 5) => dq[1] = 2
              /\ (dn = 11 /\ dd = 5) => dq[1] = 3
              /\ (dn = ScenarioN /\ dd = ScenarioD) => dq[1] = 10091
    /\ (last.op = "buy0" /\ last.a0 = 90
            /\ last.r0 = MainReserve /\ last.r1 = MainReserve)
           => /\ last.err = None
              /\ last.val = 91
              /\ r0 = 9910
              /\ r1 = 10091

\* divup(100000000, 9910) has been computed and buy0(90) has run on the
\* pool (10000, 10000).
C9_Witness ==
    /\ dn = ScenarioN /\ dd = ScenarioD /\ dq = <<10091>>
    /\ calls = 1
    /\ Succeeded(last, "buy0") /\ last.a0 = 90
    /\ r0 = 9910 /\ r1 = 10091

====
